---- MODULE Spec2Model ----
(***************************************************************************)
(* chinese-tutor: the live-chat session layer.                             *)
(*                                                                         *)
(*   web.py               the single active-chat handle, the per-session   *)
(*                        worker thread, the event queue, the SSE consumer *)
(*                        and the stop route                               *)
(*   elevenlabs_client.py run_conversation, its three transcript callbacks *)
(*                        and the stop-watcher thread                      *)
(*                                                                         *)
(* The ElevenLabs transport is an external collaborator: it is modelled by *)
(* its interface (start_session, end_session, wait_for_session_end and the *)
(* three callbacks).  Wall-clock timestamps carried by events are left out.*)
(*                                                                         *)
(* HalfDuplexAudioInterface (the microphone gate) shares no state with the *)
(* session layer: it has variables and specifications of its own, and the  *)
(* session layer's steps leave its variables alone, as its steps leave     *)
(* theirs.                                                                 *)
(*                                                                         *)
(* The state holds the most recently started session in full.  A new       *)
(* session can only be started once the handle is cleared, which only the  *)
(* previous session's consumer does as its last step (HandleOwned below);  *)
(* from then on the previous session shares nothing with the new one, and  *)
(* of it only the liveness of its worker thread is kept (orphans).         *)
(***************************************************************************)
EXTENDS Integers, Sequences, FiniteSets, TLC

\* ------------------------------------------------------------------ bounds
MaxSessions == 2
MaxCallbacks == 2
MaxVocab == 1
MaxThreads == 2
RoutesCallbacks == 1
InterleavedSessions == 1
MaxStarts == 2
MaxChunks == 2
MaxClock == 6
MaxPlayback == 2
MaxSinkRaises == 1
SinkSessions == 1
SinkCallbacks == 1
EntrySessions == 1
DisconnectSessions == 1
DisconnectCallbacks == 1
EntryCallbacks == 1
MaxInterrupts == 2
CliCallbacks == 2
MaxItems == 3
MaxInserts == 2
MaxReviews == 2
ReviewLimit == 2

AgentIds == {"", "agent"}
Kinds == {"user_transcript", "agent_response", "agent_correction"}

VARIABLES
    active_chat,       \* app.state.active_chat: 0 is None, else the session
    nsess,             \* sessions started so far; the current one's number
    orphans,           \* workers of earlier sessions that are still running
    response,          \* the HTTP response this step produced, if any
    queue,             \* the session's asyncio.Queue
    delivered,         \* what event_generator has yielded
    pushed,            \* every event handed to push, in order
    raised,            \* the events at whose emit the event sink raised
    cons,              \* where event_generator is
    wpc,               \* where the worker thread is
    stop_event,        \* the session's threading.Event
    stopper,           \* where the stop-watcher thread is
    conv,              \* the transport's conversation
    cb,                \* callback bodies in execution
    arrivals,          \* callbacks in the order the transport invoked them
    ncallbacks,        \* callbacks invoked so far, over all sessions
    transcript_lines,  \* run_conversation's accumulators
    user_lines,
    agent_lines,
    result,            \* the ConversationResult run_conversation returned
    persist,           \* what _persist_conversation was given and returned
    conf,              \* the run's configuration, fixed from the start:
                       \*   threads    the transport's callback threads
                       \*   observe    whether route responses are recorded
                       \*   sessions   start requests that can succeed
                       \*   callbacks  callbacks the transport delivers
                       \*   sink       the event callback: "ok", "raises"
                       \*              (it can raise) or "none" (not given)
    \* HalfDuplexAudioInterface
    mute_until,        \* self._mute_until
    mute_lock,         \* self._mute_lock: "free" or the thread holding it
    monotonic,         \* time.monotonic()
    input_callback,    \* self._user_input_callback is set
    running,           \* between start() and stop(): streams and thread live
    starts,            \* calls of start() so far
    playback,          \* each thread in _output_thread: where it is, its locals
    capture,           \* the PortAudio thread in _in_callback
    chunks,            \* the chunks _extend_mute was run for since start()
    frame,             \* the last microphone frame gated and what became of it
    players,           \* the threads that run _output_thread
    \* cli.py
    main,              \* the main thread in cmd_chat: where it is, whether
                       \* _handle_sigint is installed, the exception that
                       \* unwound it, the SIGINTs delivered so far
    \* storage.py, review.py
    vocab,             \* the rows of table vocab, in rowid order
    wallclock,         \* datetime.now(): the readings taken so far
    call,              \* the last call of insert_vocab_items: its arguments
                       \* and the ids it returned; the calls so far
    review             \* review_loop: where it is, the ids of its items,
                       \* the answer read last, the runs so far

webvars == <<active_chat, nsess, orphans>>
chanvars == <<queue, delivered, pushed, raised, cons>>
accvars == <<transcript_lines, user_lines, agent_lines>>
outvars == <<result, persist>>
sessvars == <<chanvars, wpc, stop_event, stopper, conv, cb, arrivals,
              ncallbacks, accvars, outvars>>

gatevars == <<mute_until, mute_lock, monotonic, input_callback, running,
              starts, playback, capture, chunks, frame, players>>

storevars == <<vocab, wallclock, call, review>>

clivars == <<main, storevars>>

\* what no step of the session layer changes
confvars == <<conf, gatevars, clivars>>

vars == <<webvars, response, sessvars, confvars>>

\* ------------------------------------------------------------- pure parts
RECURSIVE Join(_)
\* "\n".join(lines)
Join(lines) ==
    IF lines = <<>> THEN ""
    ELSE IF Len(lines) = 1 THEN lines[1]
    ELSE lines[1] \o "\n" \o Join(Tail(lines))

IsPrefix(p, q) == Len(p) <= Len(q) /\ SubSeq(q, 1, Len(p)) = p

RECURSIVE Utterance(_)
\* the text of the k-th callback: every callback carries a text of its own
Utterance(k) == IF k <= 1 THEN "nihao" ELSE Utterance(k - 1) \o "a"

NoEvent ==
    [type |-> "", text |-> "", exit_code |-> 0, session_id |-> 0,
     vocab_count |-> 0, user_lines |-> 0, agent_lines |-> 0]

Status(message) == [NoEvent EXCEPT !.type = "status", !.text = message]

TranscriptEvent(type, text) == [NoEvent EXCEPT !.type = type, !.text = text]

\* the two counts taken from each other's list
SummaryEventSwapped(u, a) ==
    [NoEvent EXCEPT !.type = "summary", !.user_lines = Len(a),
                    !.agent_lines = Len(u)]

SummaryEvent(u, a) ==
    [NoEvent EXCEPT !.type = "summary", !.user_lines = Len(u),
                    !.agent_lines = Len(a)]

DoneEvent(code, sid, n) ==
    [NoEvent EXCEPT !.type = "done", !.exit_code = code, !.session_id = sid,
                    !.vocab_count = n]

NoResult == [set |-> FALSE, transcript_text |-> "", user_text |-> "",
             agent_text |-> "", started_at |-> FALSE, ended_at |-> FALSE]

NoPersist == [returned |-> FALSE, given |-> NoResult, session_id |-> 0,
              vocab_items |-> 0]

NoResponse == [req |-> "", agent |-> "", status |-> 0, stopped |-> FALSE,
               reason |-> ""]

\* the event put at the front of the queue
PutNowaitFront(q, event) == <<event>> \o q

\* queue.put_nowait(event)
PutNowait(q, event) == Append(q, event)

\* a queue that takes no more than two undelivered events
QueueBounded(q) == Len(q) < 2

\* queue = asyncio.Queue(): no maxsize, so put_nowait never finds it full
QueueHasRoom(q) == TRUE

\* push: loop.call_soon_threadsafe(queue.put_nowait, event).  The loop runs
\* the scheduled calls in the order they were made, so the queue receives
\* the events in push order; the hand-over is folded into the push.
Push(event) ==
    /\ QueueHasRoom(queue)
    /\ queue' = PutNowait(queue, event)
    /\ pushed' = Append(pushed, event)
    /\ raised' = raised

NoPush == UNCHANGED <<queue, pushed, raised>>

\* the worker's next position when the sink's exception leaves _safe_emit
SinkRaisePropagates(next) == "w_error"

\* the worker's next position after a _safe_emit in which the sink raised:
\* `except Exception` logs it and _safe_emit returns
AfterSinkRaises(next) == next

\* _safe_emit(event_callback, event): nothing without a callback; else the
\* callback is called, and what it raises is logged and suppressed
SafeEmit(event) ==
    IF conf.sink = "none" THEN NoPush
    ELSE \/ Push(event)
         \/ /\ conf.sink = "raises"
            /\ Len(raised) < MaxSinkRaises
            /\ raised' = Append(raised, event)
            /\ UNCHANGED <<queue, pushed>>

\* where the worker goes on after a _safe_emit
EmitThen(next) == IF raised' # raised THEN AfterSinkRaises(next) ELSE next

\* --------------------- elevenlabs_client.py: HalfDuplexAudioInterface
SAMPLE_WIDTH_BYTES == 2
SAMPLE_RATE == 16000

\* Times are counted in units of 1/(SAMPLE_WIDTH_BYTES * SAMPLE_RATE) s, the
\* playing time of one byte, so that the durations are whole numbers.
UnitsPerSecond == SAMPLE_WIDTH_BYTES * SAMPLE_RATE

\* MUTE_PADDING_SECONDS = 0.2
MUTE_PADDING == UnitsPerSecond \div 5

\* the clock is read in steps of 0.1 s
ClockStep == UnitsPerSecond \div 10

\* len(audio) of the chunks played: 0.1 s and 0.4 s of audio
ChunkBytes == {3200, 12800}

\* self._mute_until = 0.0
NoMute == 0

\* the threads of the interface and the lock's state when nobody holds it
CaptureThread == <<"capture", 0>>
PlaybackThread(i) == <<"playback", i>>
Unlocked == <<"free", 0>>

PlaybackIdle == [pc |-> "get", audio |-> 0, duration |-> 0, seen |-> 0, at |-> 0]
CaptureIdle == [pc |-> "idle", allowed |-> FALSE, seen |-> 0, at |-> 0]
NoFrame == [gated |-> FALSE, at |-> 0, deadline |-> 0, forwarded |-> FALSE,
            start |-> 0]

Max(a, b) == IF a >= b THEN a ELSE b

\* the event loop thread is inside worker.join(timeout=2)
LoopBusy == cons = "joining"

WorkerAlive == wpc \notin {"none", "dead"}

\* ------------------------------------------------------------------- Init
InitCommon ==
    /\ active_chat = 0
    /\ nsess = 0
    /\ orphans = 0
    /\ response = NoResponse
    /\ queue = <<>>
    /\ delivered = <<>>
    /\ pushed = <<>>
    /\ raised = <<>>
    /\ cons = "none"
    /\ wpc = "none"
    /\ stop_event = FALSE
    /\ stopper = "none"
    /\ conv = "none"
    /\ cb = <<>>
    /\ arrivals = <<>>
    /\ ncallbacks = 0
    /\ transcript_lines = <<>>
    /\ user_lines = <<>>
    /\ agent_lines = <<>>
    /\ result = NoResult
    /\ persist = NoPersist

\* cmd_chat has not been called
NoMain == [pc |-> "none", handler |-> FALSE, exc |-> "", interrupts |-> 0]

\* no call of insert_vocab_items yet
NoCall == [items |-> <<>>, source_session_id |-> 0, ids |-> <<>>, count |-> 0]

\* review_loop not running
NoReview == [pc |-> "idle", items |-> <<>>, pos |-> 0, answer |-> <<>>,
             runs |-> 0]

\* HalfDuplexAudioInterface.__init__, with the given output threads to come;
\* no chat command running; table vocab empty
GateConstructed(threads) ==
    /\ mute_until = NoMute
    /\ mute_lock = Unlocked
    /\ monotonic = 0
    /\ input_callback = FALSE
    /\ running = FALSE
    /\ starts = 0
    /\ players = threads
    /\ playback = [p \in threads |-> PlaybackIdle]
    /\ capture = CaptureIdle
    /\ chunks = {}
    /\ frame = NoFrame
    /\ main = NoMain
    /\ vocab = <<>>
    /\ wallclock = 0
    /\ call = NoCall
    /\ review = NoReview

\* the transport runs every callback on its one receive thread
Init ==
    /\ InitCommon
    /\ GateConstructed({})
    /\ conf = [threads |-> 1, observe |-> FALSE, sessions |-> MaxSessions,
               callbacks |-> MaxCallbacks, sink |-> "ok"]

\* the same, with the responses of the routes recorded
InitRoutes ==
    /\ InitCommon
    /\ GateConstructed({})
    /\ conf = [threads |-> 1, observe |-> TRUE, sessions |-> MaxSessions,
               callbacks |-> RoutesCallbacks, sink |-> "ok"]

\* the transport hands callbacks to several threads
InitInterleaved ==
    /\ InitCommon
    /\ GateConstructed({})
    /\ conf = [threads |-> MaxThreads, observe |-> FALSE,
               sessions |-> InterleavedSessions, callbacks |-> MaxCallbacks,
               sink |-> "ok"]

\* one streamed session whose event sink can raise
InitSink ==
    /\ InitCommon
    /\ GateConstructed({})
    /\ conf = [threads |-> 1, observe |-> FALSE, sessions |-> SinkSessions,
               callbacks |-> SinkCallbacks, sink |-> "raises"]

\* the response a route returns, kept when responses are recorded
Respond(r) == response' = IF conf.observe THEN r ELSE NoResponse

\* a step of a thread other than a route handler answers no request
Quiet == response' = NoResponse

\* ------------------------------------------------------- web.py: routes
\* the check left out: a start request never finds a chat running
AlreadyRunningNever == FALSE

\* _start_chat_stream: `if active: raise HTTPException(409)`
AlreadyRunning == active_chat # 0

\* the session registered before AGENT_ID is looked at
StreamChatNoAgentRegistered ==
    /\ ~LoopBusy
    /\ active_chat' = nsess + 1
    /\ nsess' = nsess + 1
    /\ Respond([NoResponse EXCEPT !.req = "start", !.status = 400])
    /\ UNCHANGED <<orphans, sessvars, confvars>>

\* GET /stream/chat with AGENT_ID unset or empty
StreamChatNoAgent ==
    /\ ~LoopBusy
    /\ Respond([NoResponse EXCEPT !.req = "start", !.status = 400])
    /\ UNCHANGED <<webvars, sessvars, confvars>>

\* GET /stream/chat while a chat is registered
StreamChatRejected(agent_id) ==
    /\ ~LoopBusy
    /\ agent_id # ""
    /\ AlreadyRunning
    /\ Respond([NoResponse EXCEPT !.req = "start", !.agent = agent_id,
                                      !.status = 409])
    /\ UNCHANGED <<webvars, sessvars, confvars>>

\* GET /stream/chat: a new queue, stop flag and worker thread, the handle
\* set, and the StreamingResponse iterating event_generator.  The previous
\* session, if its worker still runs, is left to itself.
StreamChatStarted(agent_id) ==
    /\ ~LoopBusy
    /\ agent_id # ""
    /\ ~AlreadyRunning
    /\ nsess < conf.sessions
    /\ nsess' = nsess + 1
    /\ active_chat' = nsess + 1
    /\ orphans' = IF WorkerAlive THEN orphans + 1 ELSE orphans
    /\ queue' = <<>>
    /\ delivered' = <<>>
    /\ pushed' = <<>>
    /\ raised' = <<>>
    /\ cons' = "reading"
    /\ wpc' = "w_starting"
    /\ stop_event' = FALSE
    /\ stopper' = "none"
    /\ conv' = "none"
    /\ cb' = <<>>
    /\ arrivals' = <<>>
    /\ transcript_lines' = <<>>
    /\ user_lines' = <<>>
    /\ agent_lines' = <<>>
    /\ result' = NoResult
    /\ persist' = NoPersist
    /\ Respond([NoResponse EXCEPT !.req = "start", !.agent = agent_id,
                                      !.status = 200])
    /\ UNCHANGED <<ncallbacks, confvars>>

\* every stop request finds a chat to stop
NoActiveChatNever == FALSE

\* stop_chat: `if not active`
NoActiveChat == active_chat = 0

\* a stop request that also gives the handle up
StopChatClears ==
    /\ ~LoopBusy
    /\ IF NoActiveChat
       THEN /\ Respond([NoResponse EXCEPT !.req = "stop",
                                          !.reason = "no-active-chat"])
            /\ UNCHANGED <<stop_event, active_chat>>
       ELSE /\ stop_event' = TRUE
            /\ active_chat' = 0
            /\ Respond([NoResponse EXCEPT !.req = "stop", !.stopped = TRUE])
    /\ UNCHANGED <<nsess, orphans, chanvars, wpc, stopper, conv, cb, arrivals,
                   ncallbacks, accvars, outvars, confvars>>

\* POST /api/stop-chat
StopChat ==
    /\ ~LoopBusy
    /\ IF NoActiveChat
       THEN /\ Respond([NoResponse EXCEPT !.req = "stop",
                                          !.reason = "no-active-chat"])
            /\ UNCHANGED stop_event
       ELSE /\ stop_event' = TRUE
            /\ Respond([NoResponse EXCEPT !.req = "stop", !.stopped = TRUE])
    /\ UNCHANGED <<webvars, chanvars, wpc, stopper, conv, cb, arrivals,
                   ncallbacks, accvars, outvars, confvars>>

\* the worker of an earlier session ends
OrphanFinishes ==
    /\ Quiet
    /\ orphans > 0
    /\ orphans' = orphans - 1
    /\ UNCHANGED <<active_chat, nsess, sessvars, confvars>>

\* ------------------------------------------- web.py: event_generator
\* event = await queue.get(); yield _format_sse(event); break on "done"
ConsumerGet ==
    /\ Quiet
    /\ ~LoopBusy
    /\ cons = "reading"
    /\ queue # <<>>
    /\ delivered' = Append(delivered, Head(queue))
    /\ cons' = IF Head(queue).type = "done" THEN "finally" ELSE "reading"
    /\ queue' = Tail(queue)
    /\ UNCHANGED <<webvars, pushed, raised, wpc, stop_event, stopper, conv, cb,
                   arrivals, ncallbacks, accvars, outvars, confvars>>

\* the client goes away: the generator is closed at its await
ConsumerDisconnect ==
    /\ Quiet
    /\ ~LoopBusy
    /\ cons = "reading"
    /\ cons' = "finally"
    /\ UNCHANGED <<webvars, queue, delivered, pushed, raised, wpc, stop_event, stopper,
                   conv, cb, arrivals, ncallbacks, accvars, outvars, confvars>>

\* the stop flag left as the cleanup found it
CleanupFlagKept(flag) == flag

\* finally: chat_state.stop_event.set()
CleanupFlag(flag) == TRUE

\* finally: chat_state.stop_event.set(), then the join begins
ConsumerFinally ==
    /\ Quiet
    /\ cons = "finally"
    /\ stop_event' = CleanupFlag(stop_event)
    /\ cons' = "joining"
    /\ UNCHANGED <<webvars, queue, delivered, pushed, raised, wpc, stopper, conv, cb,
                   arrivals, ncallbacks, accvars, outvars, confvars>>

\* the calls in which the worker can stay for seconds: building the audio
\* interface and the client, start_session, wait_for_session_end, the
\* database and the extractor
WorkerBlocked == wpc \in {"rc_audio", "rc_start", "rc_wait", "w_persist"}

\* chat_state.worker.join(timeout=2) returns: the worker has finished, or
\* 2 s have passed with the worker still running.  A timed join is taken to
\* expire only while the joined thread is inside a blocking call.
JoinReturns == wpc = "dead" \/ WorkerBlocked

\* finally: after the join, `if app.state.active_chat is chat_state: ... = None`
ConsumerCleared ==
    /\ Quiet
    /\ cons = "joining"
    /\ JoinReturns
    /\ active_chat' = IF active_chat = nsess THEN 0 ELSE active_chat
    /\ cons' = "closed"
    /\ UNCHANGED <<nsess, orphans, queue, delivered, pushed, raised, wpc, stop_event,
                   stopper, conv, cb, arrivals, ncallbacks, accvars, outvars,
                   confvars>>

\* ------------------------------------ web.py: worker, up to run_conversation
\* worker: push({"type": "status", "message": "Starting live chat..."})
WorkerStarting ==
    /\ Quiet
    /\ wpc = "w_starting"
    /\ Push(Status("Starting live chat..."))
    /\ wpc' = "rc_audio"
    /\ UNCHANGED <<webvars, delivered, cons, stop_event, stopper, conv, cb,
                   arrivals, ncallbacks, accvars, outvars, confvars>>

\* ------------------------------- elevenlabs_client.py: run_conversation
\* HalfDuplexAudioInterface() built only after the "Connecting" status
AudioFailsAfterConnecting ==
    /\ Quiet
    /\ wpc = "rc_start"
    /\ wpc' = "w_error"
    /\ UNCHANGED <<webvars, chanvars, stop_event, stopper, conv, cb, arrivals,
                   ncallbacks, accvars, outvars, confvars>>

\* HalfDuplexAudioInterface() raises: RuntimeError("Could not initialize audio")
AudioFails ==
    /\ Quiet
    /\ wpc = "rc_audio"
    /\ wpc' = "w_error"
    /\ UNCHANGED <<webvars, chanvars, stop_event, stopper, conv, cb, arrivals,
                   ncallbacks, accvars, outvars, confvars>>

\* the audio interface, the client and the Conversation are built;
\* _safe_emit(status "Connecting to ElevenLabs Agent ...")
EmitConnecting ==
    /\ Quiet
    /\ wpc = "rc_audio"
    /\ SafeEmit(Status("Connecting to ElevenLabs Agent"))
    /\ wpc' = EmitThen("rc_start")
    /\ UNCHANGED <<webvars, delivered, cons, stop_event, stopper, conv, cb,
                   arrivals, ncallbacks, accvars, outvars, confvars>>

\* started_at = datetime.now(); conversation.start_session()
StartSession ==
    /\ Quiet
    /\ wpc = "rc_start"
    /\ conv' = "open"
    /\ wpc' = "rc_spawn"
    /\ UNCHANGED <<webvars, chanvars, stop_event, stopper, cb, arrivals,
                   ncallbacks, accvars, outvars, confvars>>

\* conversation.start_session() raises
StartSessionFails ==
    /\ Quiet
    /\ wpc = "rc_start"
    /\ conv' = "failed"
    /\ wpc' = "w_error"
    /\ UNCHANGED <<webvars, chanvars, stop_event, stopper, cb, arrivals,
                   ncallbacks, accvars, outvars, confvars>>

\* stopper_thread = Thread(target=_watch_stop_event, ...); stopper_thread.start()
SpawnStopper ==
    /\ Quiet
    /\ wpc = "rc_spawn"
    /\ stopper' = "waiting"
    /\ wpc' = "rc_started"
    /\ UNCHANGED <<webvars, chanvars, stop_event, conv, cb, arrivals,
                   ncallbacks, accvars, outvars, confvars>>

\* _safe_emit(status "Session started")
EmitStarted ==
    /\ Quiet
    /\ wpc = "rc_started"
    /\ SafeEmit(Status("Session started"))
    /\ wpc' = EmitThen("rc_wait")
    /\ UNCHANGED <<webvars, delivered, cons, stop_event, stopper, conv, cb,
                   arrivals, ncallbacks, accvars, outvars, confvars>>

\* the session is over: the agent ended it, or an end request was confirmed
Ended == {"ended", "ended_by_request"}

\* the wait over as soon as the end has been requested
WaitMayReturnOnRequest == conv \in Ended \cup {"ending"} /\ cb = <<>>

\* conversation.wait_for_session_end() returns once the transport has ended
\* the session and its callback threads have finished
WaitMayReturn == conv \in Ended /\ cb = <<>>

\* conversation_id = conversation.wait_for_session_end(); ended_at = now()
WaitReturns ==
    /\ Quiet
    /\ wpc = "rc_wait"
    /\ WaitMayReturn
    /\ wpc' = "rc_setstop"
    /\ UNCHANGED <<webvars, chanvars, stop_event, stopper, conv, cb, arrivals,
                   ncallbacks, accvars, outvars, confvars>>

\* conversation.wait_for_session_end() raises (not a KeyboardInterrupt: the
\* worker is not the main thread): the exception leaves run_conversation
WaitRaises ==
    /\ Quiet
    /\ wpc = "rc_wait"
    /\ conv \in {"open", "ending"}
    /\ cb = <<>>
    /\ conv' = "failed"
    /\ wpc' = "w_error"
    /\ UNCHANGED <<webvars, chanvars, stop_event, stopper, cb, arrivals,
                   ncallbacks, accvars, outvars, confvars>>

\* if stop_event is not None and stopper_thread is not None: stop_event.set()
SetStopAfterEnd ==
    /\ Quiet
    /\ wpc = "rc_setstop"
    /\ stop_event' = TRUE
    /\ wpc' = "rc_join"
    /\ UNCHANGED <<webvars, chanvars, stopper, conv, cb, arrivals, ncallbacks,
                   accvars, outvars, confvars>>

\* the stop-watcher not waited for
StopperJoinSkipped == TRUE

\* stopper_thread.join(timeout=1) can return
StopperJoined == stopper \in {"done", "end_failed", "end_session"}

\* stopper_thread.join(timeout=1) returns: the stopper has finished, or 1 s
\* has passed with the stopper still inside conversation.end_session()
JoinStopper ==
    /\ Quiet
    /\ wpc = "rc_join"
    /\ StopperJoined
    /\ wpc' = "rc_summary"
    /\ UNCHANGED <<webvars, chanvars, stop_event, stopper, conv, cb, arrivals,
                   ncallbacks, accvars, outvars, confvars>>

\* _safe_emit(summary with len(user_lines), len(agent_lines))
EmitSummary ==
    /\ Quiet
    /\ wpc = "rc_summary"
    /\ SafeEmit(SummaryEvent(user_lines, agent_lines))
    /\ wpc' = EmitThen("rc_finished")
    /\ UNCHANGED <<webvars, delivered, cons, stop_event, stopper, conv, cb,
                   arrivals, ncallbacks, accvars, outvars, confvars>>

\* ConversationResult(started_at, ended_at, "\n".join(transcript_lines), ...,
\* "\n".join(user_lines), "\n".join(agent_lines)); no callback runs between
\* the join of transcript_lines (line 211) and the return
MakeResult ==
    [set |-> TRUE,
     transcript_text |-> Join(transcript_lines),
     user_text |-> Join(user_lines),
     agent_text |-> Join(agent_lines),
     started_at |-> TRUE,
     ended_at |-> TRUE]

\* _safe_emit(status "Conversation finished"); return ConversationResult(...)
EmitFinished ==
    /\ Quiet
    /\ wpc = "rc_finished"
    /\ SafeEmit(Status("Conversation finished"))
    /\ result' = IF EmitThen("w_persist") = "w_persist" THEN MakeResult
                 ELSE result
    /\ wpc' = EmitThen("w_persist")
    /\ UNCHANGED <<webvars, delivered, cons, stop_event, stopper, conv, cb,
                   arrivals, ncallbacks, accvars, persist, confvars>>

\* --------------------------------- web.py: worker, after run_conversation
\* _persist_conversation(result): record_session, extract_unknown_words and
\* insert_vocab_items succeed; n is the number of vocab items extracted
PersistOk(n) ==
    /\ Quiet
    /\ wpc = "w_persist"
    /\ persist' = [returned |-> TRUE, given |-> result, session_id |-> nsess,
                   vocab_items |-> n]
    /\ wpc' = "w_saved"
    /\ UNCHANGED <<webvars, chanvars, stop_event, stopper, conv, cb, arrivals,
                   ncallbacks, accvars, result, confvars>>

\* the failure of persisting let out of _persist_conversation
PersistFailsRaises ==
    /\ Quiet
    /\ wpc = "w_persist"
    /\ persist' = [returned |-> TRUE, given |-> result, session_id |-> 0,
                   vocab_items |-> 0]
    /\ wpc' = "w_error"
    /\ UNCHANGED <<webvars, chanvars, stop_event, stopper, conv, cb, arrivals,
                   ncallbacks, accvars, result, confvars>>

\* _persist_conversation(result): an exception is caught, (None, []) returned
PersistFails ==
    /\ Quiet
    /\ wpc = "w_persist"
    /\ persist' = [returned |-> TRUE, given |-> result, session_id |-> 0,
                   vocab_items |-> 0]
    /\ wpc' = "w_saved"
    /\ UNCHANGED <<webvars, chanvars, stop_event, stopper, conv, cb, arrivals,
                   ncallbacks, accvars, result, confvars>>

\* if session_id: push(status "Saved session locally.")
PushSaved ==
    /\ Quiet
    /\ wpc = "w_saved"
    /\ IF persist.session_id # 0
       THEN Push(Status("Saved session locally."))
       ELSE NoPush
    /\ wpc' = "w_captured"
    /\ UNCHANGED <<webvars, delivered, cons, stop_event, stopper, conv, cb,
                   arrivals, ncallbacks, accvars, outvars, confvars>>

\* if vocab_items: push(status "Captured N vocab items.")
PushCaptured ==
    /\ Quiet
    /\ wpc = "w_captured"
    /\ IF persist.vocab_items # 0
       THEN Push([Status("Captured vocab items.") EXCEPT
                    !.vocab_count = persist.vocab_items])
       ELSE NoPush
    /\ wpc' = "w_vocab"
    /\ UNCHANGED <<webvars, delivered, cons, stop_event, stopper, conv, cb,
                   arrivals, ncallbacks, accvars, outvars, confvars>>

\* if vocab_items: push({"type": "vocab", "items": vocab_items})
PushVocab ==
    /\ Quiet
    /\ wpc = "w_vocab"
    /\ IF persist.vocab_items # 0
       THEN Push([NoEvent EXCEPT !.type = "vocab",
                                 !.vocab_count = persist.vocab_items])
       ELSE NoPush
    /\ wpc' = "w_done"
    /\ UNCHANGED <<webvars, delivered, cons, stop_event, stopper, conv, cb,
                   arrivals, ncallbacks, accvars, outvars, confvars>>

\* push({"type": "done", "exit_code": 0, ...}); the thread ends
PushDone ==
    /\ Quiet
    /\ wpc = "w_done"
    /\ Push(DoneEvent(0, persist.session_id, persist.vocab_items))
    /\ wpc' = "dead"
    /\ UNCHANGED <<webvars, delivered, cons, stop_event, stopper, conv, cb,
                   arrivals, ncallbacks, accvars, outvars, confvars>>

\* str(exc) of the exception that left run_conversation: raised at line
\* 157 if no session was ever requested of the transport, else the
\* transport's own
ExcMessage ==
    IF conv = "none" THEN "Could not initialize audio." ELSE "transport failed"

\* except Exception: push({"type": "error", "message": str(exc)})
PushError ==
    /\ Quiet
    /\ wpc = "w_error"
    /\ Push([NoEvent EXCEPT !.type = "error", !.text = ExcMessage])
    /\ wpc' = "w_error_done"
    /\ UNCHANGED <<webvars, delivered, cons, stop_event, stopper, conv, cb,
                   arrivals, ncallbacks, accvars, outvars, confvars>>

\* push({"type": "done", "exit_code": 1}); the thread ends
PushErrorDone ==
    /\ Quiet
    /\ wpc = "w_error_done"
    /\ Push(DoneEvent(1, 0, 0))
    /\ wpc' = "dead"
    /\ UNCHANGED <<webvars, delivered, cons, stop_event, stopper, conv, cb,
                   arrivals, ncallbacks, accvars, outvars, confvars>>

\* ------------------------------ elevenlabs_client.py: _watch_stop_event
\* stop_event.wait() returns; _safe_emit(status "Stopping conversation...")
StopperWakes ==
    /\ Quiet
    /\ stopper = "waiting"
    /\ stop_event
    /\ SafeEmit(Status("Stopping conversation..."))
    /\ stopper' = "end_session"
    /\ UNCHANGED <<webvars, delivered, cons, wpc, stop_event, conv, cb,
                   arrivals, ncallbacks, accvars, outvars, confvars>>

\* the stop-watcher waiting for the flag again after its end_session
StopperRearmed == "waiting"

\* _watch_stop_event returns after its one end_session: the thread ends
StopperAfterEnd == "done"

\* conversation.end_session(): an open session is asked to end
StopperEndSession ==
    /\ Quiet
    /\ stopper = "end_session"
    /\ conv' = IF conv = "open" THEN "ending" ELSE conv
    /\ stopper' = StopperAfterEnd
    /\ UNCHANGED <<webvars, chanvars, wpc, stop_event, cb, arrivals,
                   ncallbacks, accvars, outvars, confvars>>

\* a failed end_session taken by the worker for the session's failure
ConvBrokenByFailedEnd(c) == "failed"

\* the session as a failed end_session leaves it: as it was
ConvAfterFailedEnd(c) == c

\* conversation.end_session() raises: logged, not propagated
StopperEndSessionFails ==
    /\ Quiet
    /\ stopper = "end_session"
    /\ stopper' = "end_failed"
    /\ conv' = ConvAfterFailedEnd(conv)
    /\ UNCHANGED <<webvars, chanvars, wpc, stop_event, cb, arrivals,
                   ncallbacks, accvars, outvars, confvars>>

\* ------------------------------------------------------- the transport
\* the session ends: the agent hangs up, or an end request is confirmed
TransportEnds ==
    /\ Quiet
    /\ conv \in {"open", "ending"}
    /\ conv' = IF conv = "ending" THEN "ended_by_request" ELSE "ended"
    /\ UNCHANGED <<webvars, chanvars, wpc, stop_event, stopper, cb, arrivals,
                   ncallbacks, accvars, outvars, confvars>>

\* the transport invokes one of the three callbacks on a free thread
CallbackArrives(kind) ==
    /\ Quiet
    /\ conv \in {"open", "ending"}
    /\ Len(cb) < conf.threads
    /\ ncallbacks < conf.callbacks
    /\ ncallbacks' = ncallbacks + 1
    /\ LET c == [kind |-> kind, text |-> Utterance(ncallbacks + 1)] IN
        /\ arrivals' = Append(arrivals, c)
        /\ cb' = Append(cb, [call |-> c, pc |-> "transcript"])
    /\ UNCHANGED <<webvars, chanvars, wpc, stop_event, stopper, conv, accvars,
                   outvars, confvars>>

\* --------------- elevenlabs_client.py: on_user_transcript and the others
\* the line without its speaker tag
TranscriptLineUntagged(c) == c.text

\* f"User: {transcript}", f"Agent: {response}", f"Agent: {corrected}"
TranscriptLine(c) ==
    IF c.kind = "user_transcript" THEN "User: " \o c.text
    ELSE "Agent: " \o c.text

\* user_lines.append(transcript)
AppendUser(lines, c) ==
    IF c.kind = "user_transcript" THEN Append(lines, c.text) ELSE lines

\* a correction written over the agent's last utterance
AppendAgentInPlace(lines, c) ==
    IF c.kind = "user_transcript" THEN lines
    ELSE IF c.kind = "agent_correction" /\ lines # <<>>
         THEN [lines EXCEPT ![Len(lines)] = c.text]
         ELSE Append(lines, c.text)

\* agent_lines.append(response); agent_lines.append(corrected)
AppendAgent(lines, c) ==
    IF c.kind = "user_transcript" THEN lines ELSE Append(lines, c.text)

RemoveAt(q, i) == SubSeq(q, 1, i - 1) \o SubSeq(q, i + 1, Len(q))

\* transcript_lines.append(...)
CallbackTranscript(i) ==
    /\ Quiet
    /\ i \in DOMAIN cb
    /\ cb[i].pc = "transcript"
    /\ transcript_lines' = Append(transcript_lines, TranscriptLine(cb[i].call))
    /\ cb' = [cb EXCEPT ![i].pc = "lines"]
    /\ UNCHANGED <<webvars, chanvars, wpc, stop_event, stopper, conv, arrivals,
                   ncallbacks, user_lines, agent_lines, outvars, confvars>>

\* user_lines.append(...) or agent_lines.append(...)
CallbackLines(i) ==
    /\ Quiet
    /\ i \in DOMAIN cb
    /\ cb[i].pc = "lines"
    /\ user_lines' = AppendUser(user_lines, cb[i].call)
    /\ agent_lines' = AppendAgent(agent_lines, cb[i].call)
    /\ cb' = [cb EXCEPT ![i].pc = "emit"]
    /\ UNCHANGED <<webvars, chanvars, wpc, stop_event, stopper, conv, arrivals,
                   ncallbacks, transcript_lines, outvars, confvars>>

\* _safe_emit(event_callback, {"type": kind, "text": text, ...}); return
CallbackEmit(i) ==
    /\ Quiet
    /\ i \in DOMAIN cb
    /\ cb[i].pc = "emit"
    /\ SafeEmit(TranscriptEvent(cb[i].call.kind, cb[i].call.text))
    /\ cb' = RemoveAt(cb, i)
    /\ UNCHANGED <<webvars, delivered, cons, wpc, stop_event, stopper, conv,
                   arrivals, ncallbacks, accvars, outvars, confvars>>

\* ------------------------------------------------------------------- Next
\* the steps of the routes and of the current session's threads
NextSession ==
    \/ StreamChatNoAgent
    \/ \E a \in AgentIds : StreamChatRejected(a)
    \/ \E a \in AgentIds : StreamChatStarted(a)
    \/ StopChat
    \/ ConsumerGet
    \/ ConsumerDisconnect
    \/ ConsumerFinally
    \/ ConsumerCleared
    \/ WorkerStarting
    \/ AudioFails
    \/ EmitConnecting
    \/ StartSession
    \/ StartSessionFails
    \/ SpawnStopper
    \/ EmitStarted
    \/ WaitReturns
    \/ WaitRaises
    \/ SetStopAfterEnd
    \/ JoinStopper
    \/ EmitSummary
    \/ EmitFinished
    \/ \E n \in 0..MaxVocab : PersistOk(n)
    \/ PersistFails
    \/ PushSaved
    \/ PushCaptured
    \/ PushVocab
    \/ PushDone
    \/ PushError
    \/ PushErrorDone
    \/ StopperWakes
    \/ StopperEndSession
    \/ StopperEndSessionFails
    \/ TransportEnds
    \/ \E k \in Kinds : CallbackArrives(k)
    \/ \E i \in 1..MaxThreads : CallbackTranscript(i)
    \/ \E i \in 1..MaxThreads : CallbackLines(i)
    \/ \E i \in 1..MaxThreads : CallbackEmit(i)

Next ==
    \/ NextSession
    \/ OrphanFinishes

Spec == Init /\ [][Next]_vars

SpecRoutes == InitRoutes /\ [][Next]_vars

\* one session, its callbacks on several threads
SpecInterleaved == InitInterleaved /\ [][NextSession]_vars

\* one session, its event sink raising at some emit
SpecSink == InitSink /\ [][NextSession]_vars

\* =====================================================================
\* elevenlabs_client.py: HalfDuplexAudioInterface, the microphone gate
\* =====================================================================
\* what no step of the gate changes
layervars == <<webvars, response, sessvars, conf, clivars>>

\* duration_seconds = len(audio) / (SAMPLE_WIDTH_BYTES * SAMPLE_RATE)
DurationOf(audio) ==
    (audio * UnitsPerSecond) \div (SAMPLE_WIDTH_BYTES * SAMPLE_RATE)

\* the deadline set to the new chunk's end, whatever it was
OverwrittenDeadline(current, until) == until

\* max(self._mute_until, time.monotonic() + duration_seconds)
ExtendedDeadline(current, until) == Max(current, until)

\* the deadline left as it was
KeptDeadline(current) == current

\* start: self._mute_until = 0.0
StartDeadline(current) == NoMute

\* time.monotonic() >= self._mute_until
InputAllowed(now, deadline) == now >= deadline

\* the lock taken whoever holds it
MuteLockIgnored == TRUE

\* `with self._mute_lock:` can be entered
MuteLockFree == mute_lock = Unlocked

\* the output thread is stopped and joined and the streams are closed
GateQuiescent ==
    /\ \A p \in players : playback[p].pc = "get"
    /\ capture.pc = "idle"

\* chunks taken from output_queue for which _extend_mute has not finished
InExtend == {p \in players : playback[p].pc \in {"extend", "read", "write"}}

\* time passes
ClockTicks ==
    /\ monotonic < MaxClock * ClockStep
    /\ monotonic' = monotonic + ClockStep
    /\ UNCHANGED <<layervars, mute_until, mute_lock, input_callback, running,
                   starts, playback, capture, chunks, frame, players>>

\* start(input_callback): the deadline reset and the callback kept, then
\* DefaultAudioInterface.start opens the streams and starts the output thread
GateStart ==
    /\ ~running
    /\ starts < MaxStarts
    /\ GateQuiescent
    /\ mute_until' = StartDeadline(mute_until)
    /\ input_callback' = TRUE
    /\ running' = TRUE
    /\ starts' = starts + 1
    /\ chunks' = {}
    /\ UNCHANGED <<layervars, mute_lock, monotonic, playback, capture, frame,
                   players>>

\* DefaultAudioInterface.stop: should_stop set, the output thread joined,
\* the streams stopped and closed
GateStop ==
    /\ running
    /\ GateQuiescent
    /\ running' = FALSE
    /\ UNCHANGED <<layervars, mute_until, mute_lock, monotonic,
                   input_callback, starts, playback, capture, chunks, frame,
                   players>>

\* _output_thread: audio = self.output_queue.get(timeout=0.25) and the
\* chunk's duration; the argument of _extend_mute has the padding added
PlaybackDequeue(p, audio) ==
    /\ running
    /\ playback[p].pc = "get"
    /\ Cardinality(chunks) + Cardinality(InExtend) < MaxChunks
    /\ playback' = [playback EXCEPT ![p] =
                      [PlaybackIdle EXCEPT
                          !.pc = "extend",
                          !.audio = audio,
                          !.duration = DurationOf(audio) + MUTE_PADDING]]
    /\ UNCHANGED <<layervars, mute_until, mute_lock, monotonic,
                   input_callback, running, starts, capture, chunks, frame,
                   players>>

\* _extend_mute: `with self._mute_lock:` entered
ExtendAcquire(p) ==
    /\ playback[p].pc = "extend"
    /\ MuteLockFree
    /\ mute_lock' = p
    /\ playback' = [playback EXCEPT ![p].pc = "read"]
    /\ UNCHANGED <<layervars, mute_until, monotonic, input_callback, running,
                   starts, capture, chunks, frame, players>>

\* _extend_mute: self._mute_until and time.monotonic() are read
ExtendRead(p) ==
    /\ playback[p].pc = "read"
    /\ playback' = [playback EXCEPT ![p].pc = "write",
                                    ![p].seen = mute_until,
                                    ![p].at = monotonic]
    /\ UNCHANGED <<layervars, mute_until, mute_lock, monotonic,
                   input_callback, running, starts, capture, chunks, frame,
                   players>>

\* _extend_mute: self._mute_until = max(...), and the lock is released
ExtendWrite(p) ==
    /\ playback[p].pc = "write"
    /\ mute_until' = ExtendedDeadline(playback[p].seen,
                                      playback[p].at + playback[p].duration)
    /\ mute_lock' = Unlocked
    /\ chunks' = chunks \cup {[at |-> playback[p].at,
                               audio |-> playback[p].audio]}
    /\ playback' = [playback EXCEPT ![p].pc = "play"]
    /\ UNCHANGED <<layervars, monotonic, input_callback, running, starts,
                   capture, frame, players>>

\* _output_thread: self.out_stream.write(audio) returns or raises (logged)
PlaybackWritten(p) ==
    /\ playback[p].pc = "play"
    /\ playback' = [playback EXCEPT ![p] = PlaybackIdle]
    /\ UNCHANGED <<layervars, mute_until, mute_lock, monotonic,
                   input_callback, running, starts, capture, chunks, frame,
                   players>>

\* _in_callback is called with a frame: `if self._user_input_callback and ...`
FrameArrives ==
    /\ running
    /\ capture.pc = "idle"
    /\ capture' = [CaptureIdle EXCEPT
                      !.pc = IF input_callback THEN "allowed" ELSE "idle"]
    /\ UNCHANGED <<layervars, mute_until, mute_lock, monotonic,
                   input_callback, running, starts, playback, chunks, frame,
                   players>>

\* _input_allowed: `with self._mute_lock:` entered
AllowedAcquire ==
    /\ capture.pc = "allowed"
    /\ MuteLockFree
    /\ mute_lock' = CaptureThread
    /\ capture' = [capture EXCEPT !.pc = "read"]
    /\ UNCHANGED <<layervars, mute_until, monotonic, input_callback, running,
                   starts, playback, chunks, frame, players>>

\* _input_allowed: return time.monotonic() >= self._mute_until, and the lock
\* is released
AllowedRead ==
    /\ capture.pc = "read"
    /\ capture' = [capture EXCEPT
                      !.pc = "decided",
                      !.allowed = InputAllowed(monotonic, mute_until),
                      !.seen = mute_until,
                      !.at = monotonic]
    /\ mute_lock' = Unlocked
    /\ UNCHANGED <<layervars, mute_until, monotonic, input_callback, running,
                   starts, playback, chunks, frame, players>>

\* _in_callback: self._user_input_callback(in_data) if allowed; paContinue
FrameGated ==
    /\ capture.pc = "decided"
    /\ frame' = [gated |-> TRUE, at |-> capture.at, deadline |-> capture.seen,
                 forwarded |-> capture.allowed, start |-> starts]
    /\ capture' = CaptureIdle
    /\ UNCHANGED <<layervars, mute_until, mute_lock, monotonic,
                   input_callback, running, starts, playback, chunks, players>>

NextGate ==
    \/ ClockTicks
    \/ GateStart
    \/ GateStop
    \/ \E p \in players, audio \in ChunkBytes : PlaybackDequeue(p, audio)
    \/ \E p \in players : ExtendAcquire(p)
    \/ \E p \in players : ExtendRead(p)
    \/ \E p \in players : ExtendWrite(p)
    \/ \E p \in players : PlaybackWritten(p)
    \/ FrameArrives
    \/ AllowedAcquire
    \/ AllowedRead
    \/ FrameGated

\* one interface with its output thread and the capture thread
InitGate ==
    /\ InitCommon
    /\ conf = [threads |-> 1, observe |-> FALSE, sessions |-> 0,
               callbacks |-> 0, sink |-> "ok"]
    /\ GateConstructed({PlaybackThread(1)})

\* _extend_mute called from several threads at once
InitGateOverlap ==
    /\ InitCommon
    /\ conf = [threads |-> 1, observe |-> FALSE, sessions |-> 0,
               callbacks |-> 0, sink |-> "ok"]
    /\ GateConstructed({PlaybackThread(i) : i \in 1..MaxPlayback})

SpecGate == InitGate /\ [][NextGate]_vars

SpecGateOverlap == InitGateOverlap /\ [][NextGate]_vars

\* =====================================================================
\* cli.py: cmd_chat, the blocking caller of run_conversation
\* =====================================================================
\* cmd_chat calls run_conversation(agent_id, api_key) on the main thread:
\* no event callback (every _safe_emit returns at once), no stop_event (no
\* stop-watcher), install_signal_handlers left True.  The transport and the
\* three callbacks are those of the session layer.  `except
\* KeyboardInterrupt` around wait_for_session_end is not reached: once
\* _handle_sigint is installed a SIGINT raises no KeyboardInterrupt.

\* what cmd_chat and the driver it calls leave alone
webstate == <<webvars, chanvars, wpc, stop_event, stopper, ncallbacks, conf,
              gatevars, storevars>>

\* end_session has an effect on an open session only
AfterEndSession(c) == IF c = "open" THEN "ending" ELSE c

\* run_conversation is left by an exception
Unwound(exc) == [main EXCEPT !.pc = "unwound", !.exc = exc]

\* cmd_chat: AGENT_ID is read; sys.exit(1) if it is missing
CmdChat(agent_id) ==
    /\ Quiet
    /\ main.pc = "none"
    /\ main' = [main EXCEPT !.pc = IF agent_id = "" THEN "exit1" ELSE "rc_audio"]
    /\ UNCHANGED <<webstate, conv, cb, arrivals, accvars, outvars>>

\* run_conversation: HalfDuplexAudioInterface() raises, RuntimeError raised
CliAudioFails ==
    /\ Quiet
    /\ main.pc = "rc_audio"
    /\ main' = Unwound("audio")
    /\ UNCHANGED <<webstate, conv, cb, arrivals, accvars, outvars>>

\* run_conversation: the audio interface, the client and the Conversation
CliConversationBuilt ==
    /\ Quiet
    /\ main.pc = "rc_audio"
    /\ main' = [main EXCEPT !.pc = "rc_install"]
    /\ UNCHANGED <<webstate, conv, cb, arrivals, accvars, outvars>>

\* run_conversation: signal.signal(signal.SIGINT, _handle_sigint)
CliInstallHandler ==
    /\ Quiet
    /\ main.pc = "rc_install"
    /\ main' = [main EXCEPT !.pc = "rc_start", !.handler = TRUE]
    /\ UNCHANGED <<webstate, conv, cb, arrivals, accvars, outvars>>

\* run_conversation: conversation.start_session()
CliStartSession ==
    /\ Quiet
    /\ main.pc = "rc_start"
    /\ conv' = "open"
    /\ main' = [main EXCEPT !.pc = "rc_wait"]
    /\ UNCHANGED <<webstate, cb, arrivals, accvars, outvars>>

\* run_conversation: conversation.start_session() raises
CliStartSessionFails ==
    /\ Quiet
    /\ main.pc = "rc_start"
    /\ conv' = "failed"
    /\ main' = Unwound("transport")
    /\ UNCHANGED <<webstate, cb, arrivals, accvars, outvars>>

\* run_conversation: wait_for_session_end() returns; ended_at = now()
CliWaitReturns ==
    /\ Quiet
    /\ main.pc = "rc_wait"
    /\ WaitMayReturn
    /\ main' = [main EXCEPT !.pc = "rc_result"]
    /\ UNCHANGED <<webstate, conv, cb, arrivals, accvars, outvars>>

\* run_conversation: wait_for_session_end() raises
CliWaitRaises ==
    /\ Quiet
    /\ main.pc = "rc_wait"
    /\ conv \in {"open", "ending"}
    /\ cb = <<>>
    /\ conv' = "failed"
    /\ main' = Unwound("transport")
    /\ UNCHANGED <<webstate, cb, arrivals, accvars, outvars>>

\* run_conversation: the texts are joined and the ConversationResult returned
CliReturns ==
    /\ Quiet
    /\ main.pc = "rc_result"
    /\ result' = MakeResult
    /\ main' = [main EXCEPT !.pc = "returned"]
    /\ UNCHANGED <<webstate, conv, cb, arrivals, accvars, persist>>

\* cmd_chat: storage.record_session, extract_unknown_words, insert_vocab_items
CliRecordSession(n) ==
    /\ Quiet
    /\ main.pc = "returned"
    /\ persist' = [returned |-> TRUE, given |-> result, session_id |-> 1,
                   vocab_items |-> n]
    /\ main' = [main EXCEPT !.pc = "exit0"]
    /\ UNCHANGED <<webstate, conv, cb, arrivals, accvars, result>>

\* the main thread is inside run_conversation
InRunConversation ==
    main.pc \in {"rc_audio", "rc_install", "rc_start", "rc_wait", "rc_result"}

\* SIGINT before _handle_sigint is installed: Python's handler raises
\* KeyboardInterrupt in the main thread, where nothing catches it
SigintDefault ==
    /\ Quiet
    /\ InRunConversation
    /\ ~main.handler
    /\ main.interrupts < MaxInterrupts
    /\ main' = [Unwound("KeyboardInterrupt") EXCEPT
                   !.interrupts = main.interrupts + 1]
    /\ UNCHANGED <<webstate, conv, cb, arrivals, accvars, outvars>>

\* SIGINT with _handle_sigint installed: conversation.end_session()
SigintHandled ==
    /\ Quiet
    /\ InRunConversation
    /\ main.handler
    /\ main.interrupts < MaxInterrupts
    /\ conv' = AfterEndSession(conv)
    /\ main' = [main EXCEPT !.interrupts = main.interrupts + 1]
    /\ UNCHANGED <<webstate, cb, arrivals, accvars, outvars>>

\* SIGINT with _handle_sigint installed: conversation.end_session() raises,
\* and the exception leaves the handler into the main thread
SigintHandlerRaises ==
    /\ Quiet
    /\ InRunConversation
    /\ main.handler
    /\ main.interrupts < MaxInterrupts
    /\ main' = [Unwound("end_session") EXCEPT
                   !.interrupts = main.interrupts + 1]
    /\ UNCHANGED <<webstate, conv, cb, arrivals, accvars, outvars>>

NextCli ==
    \/ \E a \in AgentIds : CmdChat(a)
    \/ CliAudioFails
    \/ CliConversationBuilt
    \/ CliInstallHandler
    \/ CliStartSession
    \/ CliStartSessionFails
    \/ CliWaitReturns
    \/ CliWaitRaises
    \/ CliReturns
    \/ \E n \in 0..MaxVocab : CliRecordSession(n)
    \/ SigintDefault
    \/ SigintHandled
    \/ SigintHandlerRaises
    \/ TransportEnds
    \/ \E k \in Kinds : CallbackArrives(k)
    \/ \E i \in 1..MaxThreads : CallbackTranscript(i)
    \/ \E i \in 1..MaxThreads : CallbackLines(i)
    \/ \E i \in 1..MaxThreads : CallbackEmit(i)

\* the chat command, with no web session
InitCli ==
    /\ InitCommon
    /\ GateConstructed({})
    /\ conf = [threads |-> 1, observe |-> FALSE, sessions |-> 0,
               callbacks |-> CliCallbacks, sink |-> "none"]

SpecCli == InitCli /\ [][NextCli]_vars

\* =====================================================================
\* the program's two entry points: the web application and the chat command
\* =====================================================================
\* the process was started as the chat command (which gives no event sink)
StartedAsCommand == conf.sink = "none"

\* the web application, its route responses recorded
InitWeb ==
    /\ InitCommon
    /\ GateConstructed({})
    /\ conf = [threads |-> 1, observe |-> TRUE, sessions |-> EntrySessions,
               callbacks |-> EntryCallbacks, sink |-> "ok"]

InitEntry == InitWeb \/ InitCli

NextEntry ==
    \/ ~StartedAsCommand /\ NextSession
    \/ StartedAsCommand /\ NextCli

SpecEntry == InitEntry /\ [][NextEntry]_vars

\* =====================================================================
\* one streamed session with its threads scheduled fairly
\* =====================================================================
InitDisconnect ==
    /\ InitCommon
    /\ GateConstructed({})
    /\ conf = [threads |-> 1, observe |-> FALSE,
               sessions |-> DisconnectSessions,
               callbacks |-> DisconnectCallbacks, sink |-> "ok"]

\* the steps of the worker thread
WorkerSteps ==
    \/ WorkerStarting
    \/ AudioFails
    \/ EmitConnecting
    \/ StartSession
    \/ StartSessionFails
    \/ SpawnStopper
    \/ EmitStarted
    \/ WaitReturns
    \/ WaitRaises
    \/ SetStopAfterEnd
    \/ JoinStopper
    \/ EmitSummary
    \/ EmitFinished
    \/ \E n \in 0..MaxVocab : PersistOk(n)
    \/ PersistFails
    \/ PushSaved
    \/ PushCaptured
    \/ PushVocab
    \/ PushDone
    \/ PushError
    \/ PushErrorDone

\* the steps of the stop-watcher thread
StopperSteps ==
    \/ StopperWakes
    \/ StopperEndSession
    \/ StopperEndSessionFails

\* the steps of the transport's callback thread
CallbackSteps ==
    \/ \E i \in 1..MaxThreads : CallbackTranscript(i)
    \/ \E i \in 1..MaxThreads : CallbackLines(i)
    \/ \E i \in 1..MaxThreads : CallbackEmit(i)

\* Every thread that can run does run, the event loop finishes a cleanup it
\* has begun, and the transport ends every session in the end.
Fairness ==
    /\ WF_vars(WorkerSteps)
    /\ WF_vars(StopperSteps)
    /\ WF_vars(CallbackSteps)
    /\ WF_vars(TransportEnds)
    /\ WF_vars(ConsumerFinally)
    /\ WF_vars(ConsumerCleared)

SpecDisconnect == InitDisconnect /\ [][NextSession]_vars /\ Fairness

\* =====================================================================
\* storage.py: table vocab
\* =====================================================================
\* what leaves table vocab and review_loop alone is left alone by them
storeframe == <<webvars, sessvars, conf, gatevars, main>>

\* a key the dict does not have, or has with value None
Absent == "<absent>"

\* last_seen_at and last_result of a row never reviewed: SQL NULL
NullTime == 0
NullResult == "<null>"

\* `item.get(k, "") or ""`
OrEmpty(v) == IF v = Absent THEN "" ELSE v

\* the items handed to insert_vocab_items
Items ==
    [english : {Absent, "", "cat"}, chinese : {Absent, "mao"},
     pinyin : {Absent, "mao1"}, example : {"ex"}]

ItemLists == UNION {[1..n -> Items] : n \in 0..MaxItems}

\* the pairs told apart by the english field alone
KeyEnglishOnly(item) == <<OrEmpty(item.english), "">>

\* key = (item.get("english") or "", item.get("chinese") or "")
Key(item) == <<OrEmpty(item.english), OrEmpty(item.chinese)>>

\* cur.lastrowid of an INSERT into a table with INTEGER PRIMARY KEY
LastRowId(table) ==
    IF table = <<>> THEN 1 ELSE table[Len(table)].id + 1

\* the row one INSERT of insert_vocab_items adds
InsertedRow(table, item, source_session_id, created_at) ==
    [id |-> LastRowId(table),
     created_at |-> created_at,
     source_session_id |-> source_session_id,
     english |-> OrEmpty(item.english),
     chinese |-> OrEmpty(item.chinese),
     pinyin |-> OrEmpty(item.pinyin),
     example |-> OrEmpty(item.example),
     seen_count |-> 0,
     last_seen_at |-> NullTime,
     last_result |-> NullResult]

\* `for item in items:` of insert_vocab_items, from the given table, ids and
\* seen_pairs on
RECURSIVE InsertLoop(_, _, _, _, _, _)
InsertLoop(items, source_session_id, created_at, table, ids, seen_pairs) ==
    IF items = <<>>
    THEN [table |-> table, ids |-> ids]
    ELSE IF Key(Head(items)) \in seen_pairs
         THEN InsertLoop(Tail(items), source_session_id, created_at, table,
                         ids, seen_pairs)
         ELSE InsertLoop(Tail(items), source_session_id, created_at,
                         Append(table, InsertedRow(table, Head(items),
                                                   source_session_id,
                                                   created_at)),
                         Append(ids, LastRowId(table)),
                         seen_pairs \cup {Key(Head(items))})

\* insert_vocab_items(items, source_session_id): one transaction
InsertVocabItems(items, source_session_id) ==
    /\ Quiet
    /\ review.pc = "idle"
    /\ call.count < MaxInserts
    /\ Len(vocab) + Len(items) <= MaxItems
    /\ wallclock' = wallclock + 1
    /\ LET r == InsertLoop(items, source_session_id, wallclock + 1, vocab,
                            <<>>, {})
       IN  /\ vocab' = r.table
           /\ call' = [items |-> items,
                       source_session_id |-> source_session_id,
                       ids |-> r.ids, count |-> call.count + 1]
    /\ UNCHANGED <<storeframe, review>>

InitVocab ==
    /\ InitCommon
    /\ GateConstructed({})
    /\ conf = [threads |-> 1, observe |-> FALSE, sessions |-> MaxSessions,
               callbacks |-> 0, sink |-> "none"]

NextVocab ==
    \E items \in ItemLists : \E sid \in 1..MaxSessions :
        InsertVocabItems(items, sid)

SpecVocab == InitVocab /\ [][NextVocab]_vars

\* =====================================================================
\* review.py: review_loop
\* =====================================================================
\* review_loop's default limit
DefaultLimit == 5

\* the lines typed at the prompt, character by character
Answers ==
    { <<"p">>, <<"P">>, <<"p", "a", "s", "s">>,
      <<" ", "P", "a", "s", "s", " ">>, <<"y">>, <<"y", "e", "s">>,
      <<"f">>, <<>>, <<" ">>, <<"q">>, <<" ", "Q", " ">>,
      <<"q", "u", "i", "t">> }

Whitespace == {" ", "\t"}

\* str.strip()
RECURSIVE StripLeft(_)
StripLeft(s) ==
    IF s # <<>> /\ Head(s) \in Whitespace THEN StripLeft(Tail(s)) ELSE s

RECURSIVE StripRight(_)
StripRight(s) ==
    IF s # <<>> /\ s[Len(s)] \in Whitespace
    THEN StripRight(SubSeq(s, 1, Len(s) - 1))
    ELSE s

Strip(s) == StripRight(StripLeft(s))

\* str.lower(), on the letters that are typed
LowerChar(c) ==
    CASE c = "A" -> "a"
      [] c = "P" -> "p"
      [] c = "Q" -> "q"
      [] c = "S" -> "s"
      [] c = "Y" -> "y"
      [] OTHER -> c

Lower(s) == [i \in 1..Len(s) |-> LowerChar(s[i])]

\* only "p" counts as a pass
ReviewResultStrict(answer) ==
    IF answer = <<"p">> THEN "pass" ELSE "fail"

\* result = "pass" if answer in ("p", "pass", "y") else "fail"
ReviewResult(answer) ==
    IF answer \in {<<"p">>, <<"p", "a", "s", "s">>, <<"y">>}
    THEN "pass"
    ELSE "fail"

\* the ORDER BY of get_vocab_for_review: failed rows first, then rows never
\* seen, then by last_seen_at, then by created_at
ReviewKey(row) ==
    << IF row.last_result = "fail" THEN 0 ELSE 1,
       IF row.last_seen_at = NullTime THEN 0 ELSE 1,
       row.last_seen_at,
       row.created_at >>

\* a <= b in the order of the ORDER BY
KeyLeq(a, b) ==
    \/ a = b
    \/ \E i \in 1..4 : a[i] < b[i] /\ \A j \in 1..(i - 1) : a[j] = b[j]

Min(a, b) == IF a <= b THEN a ELSE b

\* the results get_vocab_for_review(limit) can return: the first `limit`
\* rows in the order of the ORDER BY, rows that compare equal in any order
ReviewSelections(table, limit) ==
    { s \in [1..Min(limit, Len(table)) -> 1..Len(table)] :
        /\ \A i, j \in DOMAIN s : i < j =>
              /\ s[i] # s[j]
              /\ KeyLeq(ReviewKey(table[s[i]]), ReviewKey(table[s[j]]))
        /\ \A i \in DOMAIN s : \A k \in 1..Len(table) :
              (\A j \in DOMAIN s : s[j] # k)
                 => KeyLeq(ReviewKey(table[s[i]]), ReviewKey(table[k])) }

\* update_vocab_result(vocab_id, result) at the given time
UpdateVocabResult(table, vocab_id, outcome, at) ==
    [i \in 1..Len(table) |->
        IF table[i].id = vocab_id
        THEN [table[i] EXCEPT !.seen_count = @ + 1,
                              !.last_seen_at = at,
                              !.last_result = outcome]
        ELSE table[i]]

\* a chat whose Result gave the first n of three words
Seed ==
    << [english |-> "cat", chinese |-> "mao", pinyin |-> "mao1",
        example |-> "ex"],
       [english |-> "", chinese |-> "mao", pinyin |-> "mao1",
        example |-> "ex"],
       [english |-> "cat", chinese |-> Absent, pinyin |-> Absent,
        example |-> "ex"] >>

ReviewSeed(n) ==
    /\ vocab = <<>>
    /\ call.count = 0
    /\ InsertVocabItems(SubSeq(Seed, 1, n), 1)

\* items = storage.get_vocab_for_review(limit=limit); `if not items: return`
ReviewBegin(limit, s) ==
    /\ Quiet
    /\ review.pc = "idle"
    /\ review.runs < MaxReviews
    /\ s \in ReviewSelections(vocab, limit)
    /\ review' = [pc |-> IF s = <<>> THEN "idle" ELSE "asking",
                  items |-> [i \in 1..Len(s) |-> vocab[s[i]].id],
                  pos |-> IF s = <<>> THEN 0 ELSE 1,
                  answer |-> <<>>,
                  runs |-> review.runs + 1]
    /\ UNCHANGED <<storeframe, vocab, wallclock, call>>

\* one turn of `for row in items:` with the line typed at the prompt
ReviewAnswer(line) ==
    /\ Quiet
    /\ review.pc = "asking"
    /\ LET answer == Lower(Strip(line))
           last == review.pos = Len(review.items)
       IN  IF answer = <<"q">>
           THEN /\ review' = [review EXCEPT !.pc = "idle", !.answer = line]
                /\ UNCHANGED <<vocab, wallclock>>
           ELSE /\ vocab' = UpdateVocabResult(vocab, review.items[review.pos],
                                              ReviewResult(answer), wallclock + 1)
                /\ wallclock' = wallclock + 1
                /\ review' = [review EXCEPT
                                 !.pc = IF last THEN "idle" ELSE "asking",
                                 !.pos = IF last THEN @ ELSE @ + 1,
                                 !.answer = line]
    /\ UNCHANGED <<storeframe, call>>

InitReview == InitVocab

NextReview ==
    \/ \E n \in 1..MaxItems : ReviewSeed(n)
    \/ \E limit \in {ReviewLimit, DefaultLimit} :
          \E s \in ReviewSelections(vocab, limit) : ReviewBegin(limit, s)
    \/ \E line \in Answers : ReviewAnswer(line)

SpecReview == InitReview /\ [][NextReview]_vars

\* ------------------------------------------------------------- properties
\* The handle is 0 or the current session, and while it is 0 no consumer of
\* the current session is left that could clear it: what lets the state
\* keep one session in full.
HandleOwned ==
    /\ active_chat \in {0, nsess}
    /\ active_chat = 0 => cons \in {"none", "closed"}

HasDone(events) == \E i \in 1..Len(events) : events[i].type = "done"

IsTranscript(e) ==
    e.type \in {"user_transcript", "agent_response", "agent_correction"}

\* what the callbacks received should have left behind, from the arrivals
ExpectedLine(c) ==
    IF c.kind = "user_transcript" THEN "User: " \o c.text
    ELSE "Agent: " \o c.text

RECURSIVE ExpectedTranscript(_)
ExpectedTranscript(a) ==
    IF a = <<>> THEN <<>>
    ELSE <<ExpectedLine(Head(a))>> \o ExpectedTranscript(Tail(a))

RECURSIVE ExpectedTexts(_, _)
ExpectedTexts(a, kinds) ==
    IF a = <<>> THEN <<>>
    ELSE (IF Head(a).kind \in kinds THEN <<Head(a).text>> ELSE <<>>)
            \o ExpectedTexts(Tail(a), kinds)

ExpectedUser(a) == ExpectedTexts(a, {"user_transcript"})

ExpectedAgent(a) == ExpectedTexts(a, {"agent_response", "agent_correction"})

\* C1: a start request (with an agent id) handled while the handle is set is
\* answered 409 and changes nothing: no session is created and the running
\* session's handle, stop flag, worker, stopper and queue are as before.
C1_StartWhileActiveRejected ==
    [][(active_chat # 0 /\ response'.req = "start" /\ response'.agent # "")
         => (response'.status = 409 /\ UNCHANGED <<webvars, sessvars>>)]_vars

\* a 409 was answered while the session's worker was waiting for the
\* session to end, after a stop request and a disconnect were possible
C1_Witness ==
    /\ response.req = "start"
    /\ response.status = 409
    /\ wpc = "rc_wait"
    /\ stop_event
    /\ pushed # <<>>

\* C2: at most one session worker thread is alive at a time.
C2_AtMostOneWorker == orphans + (IF WorkerAlive THEN 1 ELSE 0) <= 1

\* C3: at most one "done" is pushed to a session's queue and it is the last
\* event pushed, whichever thread pushes.
C3_DoneIsLast ==
    \A i \in 1..Len(pushed) : pushed[i].type = "done" => i = Len(pushed)

\* the transcript events pushed so far, as transcript lines
RECURSIVE EmittedLines(_)
EmittedLines(events) ==
    IF events = <<>> THEN <<>>
    ELSE (IF IsTranscript(Head(events))
          THEN <<ExpectedLine([kind |-> Head(events).type,
                               text |-> Head(events).text])>>
          ELSE <<>>) \o EmittedLines(Tail(events))

\* C4: once the callbacks invoked so far have returned, the transcript
\* events were emitted in the order of transcript_lines, and both are in the
\* order the callbacks arrived.
C4_OrderPreserved ==
    cb = <<>> =>
        /\ EmittedLines(pushed) = transcript_lines
        /\ transcript_lines = ExpectedTranscript(arrivals)

\* C5: what the consumer has received is, in order, the first events pushed:
\* nothing dropped, duplicated or reordered, so all that was pushed before
\* "done" is delivered before it.
C5_DeliveredInPushOrder ==
    /\ IsPrefix(delivered, pushed)
    /\ delivered \o queue = pushed

\* "done" was delivered after transcript events and other events
C5_Witness ==
    /\ HasDone(delivered)
    /\ Len(delivered) >= 8
    /\ \E i \in 1..Len(delivered) : IsTranscript(delivered[i])

\* C6: the transport is asked to end only by the stop-watcher, after the
\* stop flag was set; while the session is open or ending the worker has
\* not gone past wait_for_session_end; and when the end request has been
\* confirmed, the Result holds every utterance received and every "done"
\* pushed carries exit_code 0.
C6_CancelWaitsForConfirmation ==
    /\ conv = "ending" => (stop_event /\ stopper = "done")
    /\ conv \in {"open", "ending"} => wpc \in {"rc_spawn", "rc_started", "rc_wait"}
    /\ (conv = "ended_by_request" /\ result.set) =>
          /\ result.user_text = Join(ExpectedUser(arrivals))
          /\ result.transcript_text = Join(ExpectedTranscript(arrivals))
    /\ conv = "ended_by_request" =>
          \A i \in 1..Len(pushed) :
              pushed[i].type = "done" => pushed[i].exit_code = 0

\* two user utterances, then the cancellation, the confirmed end, and a
\* Result with exactly those two utterances and "done" with exit_code 0
C6_Witness ==
    /\ conv = "ended_by_request"
    /\ result.set
    /\ result.user_text = "nihao\nnihaoa"
    /\ Len(pushed) >= 4
    /\ pushed[Len(pushed)] = DoneEvent(0, pushed[Len(pushed)].session_id,
                                       pushed[Len(pushed)].vocab_count)
    /\ \E i, j, k \in 1..Len(pushed) :
          /\ i < j /\ j < k
          /\ pushed[i] = TranscriptEvent("user_transcript", "nihao")
          /\ pushed[j] = TranscriptEvent("user_transcript", "nihaoa")
          /\ pushed[k] = Status("Stopping conversation...")

\* C7: a Result's transcript_text is the newline-joined tagged lines of the
\* callbacks received, in arrival order, and user_text and agent_text are
\* the newline-joined user and agent utterances, in arrival order.
C7_ResultTexts ==
    result.set =>
        /\ result.transcript_text = Join(ExpectedTranscript(arrivals))
        /\ result.user_text = Join(ExpectedUser(arrivals))
        /\ result.agent_text = Join(ExpectedAgent(arrivals))

\* a Result after a user utterance and an agent utterance
C7_Witness ==
    /\ result.set
    /\ Len(arrivals) = 2
    /\ arrivals[1].kind = "user_transcript"
    /\ arrivals[2].kind # "user_transcript"
    /\ result.transcript_text = "User: nihao\nAgent: nihaoa"

\* the scenario of C8: agent_response("nihao"), then
\* agent_correction("nihao", "nihaoa")
CorrectionScenario ==
    arrivals = <<[kind |-> "agent_response", text |-> "nihao"],
                 [kind |-> "agent_correction", text |-> "nihaoa"]>>

\* C8: within a session every accumulator only grows at its end, a
\* correction appends its corrected text to the agent utterances, and in the
\* scenario the Result has agent_text "nihao\nnihaoa" and both agent lines,
\* in that order, in transcript_text.
C8_CorrectionAppends ==
    /\ [][nsess' = nsess =>
            /\ IsPrefix(transcript_lines, transcript_lines')
            /\ IsPrefix(user_lines, user_lines')
            /\ IsPrefix(agent_lines, agent_lines')
            /\ (/\ Len(cb) = 1
                /\ cb[1].pc = "lines"
                /\ cb[1].call.kind = "agent_correction"
                /\ cb' # cb)
               => agent_lines' = Append(agent_lines, cb[1].call.text)]_vars
    /\ []((result.set /\ CorrectionScenario) =>
            /\ result.agent_text = "nihao\nnihaoa"
            /\ result.transcript_text = "Agent: nihao\nAgent: nihaoa")

\* a Result was returned in the scenario
C8_Witness == result.set /\ CorrectionScenario /\ Len(agent_lines) = 2

\* C9: when the worker has ended after utterances were received, a Result
\* holding them was handed to persistence, whichever way the session ended.
C9_ResultDespiteTransportError ==
    (wpc = "dead" /\ arrivals # <<>>) =>
        /\ persist.returned
        /\ persist.given.set
        /\ persist.given.transcript_text = Join(ExpectedTranscript(arrivals))

\* C10: the handle is cleared only once "done" has been delivered to the
\* consumer.
C10_HandleHeldUntilDone ==
    [][(active_chat # 0 /\ active_chat' = 0) => HasDone(delivered)]_vars

\* ------------------------------------------------- properties of the gate
\* when a chunk's mute ends: the time read for it, its playing time
\* len/(2*16000) s and the 0.2 s of padding, in units of 1/32000 s
ChunkEnd(c) == c.at + c.audio + (2 * 16000) \div 5

\* the latest end over a set of chunks; no mute when there is none
LatestEnd(cs) ==
    IF cs = {} THEN 0
    ELSE CHOOSE m \in {ChunkEnd(c) : c \in cs} : \A c \in cs : ChunkEnd(c) <= m

\* C11: the mute deadline is the maximum, over the chunks played since the
\* last start(), of the chunk's time + len/(2*16000) s + 0.2 s, so a later
\* shorter chunk does not shorten it; and a microphone frame is forwarded
\* if and only if the time is at or past the deadline when it is checked.
C11_DeadlineIsMaxAndGates ==
    /\ [](mute_until = LatestEnd(chunks))
    /\ [][(capture.pc = "read" /\ capture'.pc = "decided")
            => (capture'.allowed <=> monotonic >= mute_until)]_vars
    /\ [](frame.gated => (frame.forwarded <=> frame.at >= frame.deadline))

\* a long chunk, then a shorter one that ends earlier: the deadline is the
\* long chunk's, and a frame checked at that very time was forwarded
C11_Witness ==
    /\ \E c1, c2 \in chunks :
          /\ c1.at < c2.at
          /\ c2.audio < c1.audio
          /\ ChunkEnd(c2) < ChunkEnd(c1)
          /\ mute_until = ChunkEnd(c1)
    /\ frame.gated
    /\ frame.forwarded
    /\ frame.start = starts
    /\ frame.at = mute_until

\* C12: between two calls of start() the deadline never decreases; start()
\* sets it to 0 while no frame is being gated, and every frame gated since
\* was checked against 0 or a deadline set since that start().
C12_DeadlineMonotoneAndReset ==
    /\ [][starts' = starts => mute_until' >= mute_until]_vars
    /\ [][starts' # starts
            => (mute_until' = 0 /\ capture.pc = "idle" /\ chunks' = {})]_vars
    /\ []((frame.gated /\ frame.start = starts)
            => frame.deadline \in {0} \cup {ChunkEnd(c) : c \in chunks})

\* a frame was dropped in the first session, and after the second start()
\* the deadline is 0 again
C12_Witness ==
    /\ starts = 2
    /\ running
    /\ mute_until = 0
    /\ frame.gated
    /\ frame.start = 1
    /\ frame.deadline > 0
    /\ ~frame.forwarded

\* the threads inside `with self._mute_lock:`
InCritical ==
    {p \in players : playback[p].pc \in {"read", "write"}}
        \cup (IF capture.pc = "read" THEN {CaptureThread} ELSE {})

\* C13: at most one thread reads or writes the deadline at a time, so no
\* read sees a deadline half-updated; the deadline is at least what every
\* completed _extend_mute asked for, so no update is lost; and every gating
\* decision reads a deadline at least that of every _extend_mute completed
\* before it.
C13_ReadsSeeCompletedWrites ==
    /\ [](Cardinality(InCritical) <= 1)
    /\ [](\A c \in chunks : mute_until >= ChunkEnd(c))
    /\ [][(capture.pc = "read" /\ capture'.pc = "decided")
            => \A c \in chunks : capture'.seen >= ChunkEnd(c)]_vars

\* two _extend_mute calls and a gating decision overlap: one is about to
\* write the deadline, the other two wait for the lock
C13_Witness ==
    /\ mute_lock # Unlocked
    /\ capture.pc = "allowed"
    /\ \E p, q \in players :
          /\ playback[p].pc = "write"
          /\ playback[q].pc = "extend"

\* ------------------------------------- properties of the session layer, 2
\* the events run_conversation emits, as against those the worker pushes
EmittedByDriver(e) ==
    \/ IsTranscript(e)
    \/ e.type = "summary"
    \/ e.type = "status" /\ e.text # "Starting live chat..."
                         /\ e.text # "Saved session locally."
                         /\ e.text # "Captured vocab items."

\* C14: when building the audio interface fails, run_conversation raises
\* "Could not initialize audio" with no session requested of the transport,
\* no stop-watcher started and not one event emitted.
C14_AudioFailureBeforeTransport ==
    /\ [][(wpc # "w_error" /\ wpc' = "w_error" /\ conv' = "none")
            => /\ conv = "none"
               /\ stopper' = "none"
               /\ \A i \in 1..Len(pushed') : ~EmittedByDriver(pushed'[i])]_vars
    /\ [](\A i \in 1..Len(pushed) :
            (pushed[i].type = "error"
                /\ pushed[i].text = "Could not initialize audio.")
            => /\ conv = "none"
               /\ stopper = "none"
               /\ ~result.set
               /\ \A j \in 1..Len(pushed) : ~EmittedByDriver(pushed[j]))

\* the worker reported the audio failure and nothing else happened
C14_Witness ==
    /\ wpc = "dead"
    /\ conv = "none"
    /\ pushed = <<Status("Starting live chat..."),
                 [NoEvent EXCEPT !.type = "error",
                                 !.text = "Could not initialize audio."],
                 DoneEvent(1, 0, 0)>>

\* C15: after a transport failure the "error" event, carrying the message,
\* is immediately followed by a "done" with a nonzero exit_code, which ends
\* the stream; and once the worker has stopped, a "done" has been pushed.
C15_ErrorThenDone ==
    /\ \A i \in 1..Len(pushed) :
          (pushed[i].type = "error" /\ i < Len(pushed))
            => /\ pushed[i + 1].type = "done"
               /\ pushed[i + 1].exit_code # 0
               /\ i + 1 = Len(pushed)
    /\ \A i \in 1..Len(pushed) : pushed[i].type = "error" => pushed[i].text # ""
    /\ wpc = "dead" => HasDone(pushed)
    /\ (HasDone(delivered) /\ cons # "reading") =>
          delivered[Len(delivered)].type = "done"

\* the events of a sequence, as a set
Events(s) == {s[i] : i \in 1..Len(s)}

\* what the driver has offered to the sink: received or raised at
Offered == Events(pushed) \cup Events(raised)

\* C16: when the sink raises at an emit, the worker goes on as after any
\* emit and no accumulator changes; the utterance whose event it was is
\* already recorded; and a Result, once returned, holds every utterance
\* received, with every event of the session offered to the sink.
C16_SinkErrorSuppressed ==
    /\ [][(raised' # raised /\ nsess' = nsess)
            => /\ wpc' \in {"w_error", "w_error_done"} => wpc' = wpc
               /\ UNCHANGED <<accvars, stop_event, conv, active_chat>>
               /\ LET e == raised'[Len(raised')] IN
                    IsTranscript(e) =>
                      /\ \E i \in 1..Len(transcript_lines) :
                            transcript_lines[i] =
                                ExpectedLine([kind |-> e.type, text |-> e.text])
                      /\ e.text \in Events(user_lines) \cup Events(agent_lines)]_vars
    /\ [](result.set =>
            /\ result.transcript_text = Join(ExpectedTranscript(arrivals))
            /\ result.user_text = Join(ExpectedUser(arrivals))
            /\ result.agent_text = Join(ExpectedAgent(arrivals))
            /\ Status("Connecting to ElevenLabs Agent") \in Offered
            /\ Status("Session started") \in Offered
            /\ Status("Conversation finished") \in Offered
            /\ \E e \in Offered : e.type = "summary"
            /\ \A i \in 1..Len(arrivals) :
                  TranscriptEvent(arrivals[i].kind, arrivals[i].text) \in Offered)

\* the sink raised at the user utterance's event; the session went on to
\* its end, the later events reached the sink and the Result has the
\* utterance
C16_Witness ==
    /\ raised = <<TranscriptEvent("user_transcript", "nihao")>>
    /\ wpc = "dead"
    /\ result.set
    /\ result.user_text = "nihao"
    /\ Status("Conversation finished") \in Events(pushed)
    /\ HasDone(pushed)

\* the "Stopping conversation..." events pushed: one per end_session asked
StoppingEvents ==
    {i \in 1..Len(pushed) : pushed[i] = Status("Stopping conversation...")}

\* C18: a stop request for a session whose stop flag is already set answers
\* as the first did and changes nothing; the flag stays set; and the
\* stop-watcher, having called end_session once, never does again, so that
\* a session sees at most one "Stopping conversation..." event.
C18_SecondCancelNoOp ==
    /\ [][(stop_event /\ active_chat # 0 /\ response'.req = "stop")
            => (response'.stopped /\ UNCHANGED <<webvars, sessvars>>)]_vars
    /\ [][(stop_event /\ nsess' = nsess) => stop_event']_vars
    /\ [][(stopper \in {"done", "end_failed"} /\ nsess' = nsess)
            => stopper' = stopper]_vars
    /\ [](Cardinality(StoppingEvents) <= 1)

\* a stop request answered after the stop-watcher had already asked the
\* transport to end: the flag was set before this request
C18_Witness ==
    /\ response.req = "stop"
    /\ response.stopped
    /\ stopper = "done"
    /\ conv = "ending"
    /\ wpc = "rc_wait"
    /\ Cardinality(StoppingEvents) = 1

\* C19: a stop request handled while the handle is not set, before any
\* session or after one, answers stopped=false with reason
\* 'no-active-chat' and changes nothing.
C19_StopWithoutSessionNoOp ==
    [][(active_chat = 0 /\ response'.req = "stop")
         => /\ ~response'.stopped
            /\ response'.reason = "no-active-chat"
            /\ UNCHANGED <<webvars, sessvars>>]_vars

\* a stop request after a session was completed and its handle cleared
C19_Witness ==
    /\ response.req = "stop"
    /\ response.reason = "no-active-chat"
    /\ ~response.stopped
    /\ nsess = 1
    /\ wpc = "dead"
    /\ cons = "closed"
    /\ HasDone(delivered)
    /\ stop_event

\* C20: a failing end_session in the stop-watcher changes nothing beyond
\* ending the watcher; a stop request is answered as ever; the worker stays
\* in the session while it is open and is on the error path only if the
\* transport failed; and a Result returned holds every utterance received.
C20_EndSessionFailureContained ==
    /\ [][(stopper = "end_session" /\ stopper' = "end_failed")
            => /\ response' = NoResponse
               /\ UNCHANGED <<webvars, chanvars, wpc, stop_event, conv, cb,
                              arrivals, accvars, outvars>>]_vars
    /\ [][(stopper = "end_failed" /\ active_chat # 0 /\ response'.req = "stop")
            => response' = [NoResponse EXCEPT !.req = "stop",
                                              !.stopped = TRUE]]_vars
    /\ []((stopper = "end_failed" /\ conv = "open")
            => wpc \in {"rc_started", "rc_wait"})
    /\ []((stopper = "end_failed" /\ wpc \in {"w_error", "w_error_done"})
            => conv = "failed")
    /\ []((stopper = "end_failed" /\ result.set)
            => /\ result.transcript_text = Join(ExpectedTranscript(arrivals))
               /\ result.user_text = Join(ExpectedUser(arrivals)))

\* end_session failed after a stop request; the session went on until the
\* agent ended it, and the Result and "done" followed
C20_Witness ==
    /\ stopper = "end_failed"
    /\ conv = "ended"
    /\ Cardinality(StoppingEvents) = 1
    /\ result.set
    /\ result.user_text = "nihao"
    /\ wpc = "dead"
    /\ pushed[Len(pushed)].type = "done"
    /\ pushed[Len(pushed)].exit_code = 0

\* ------------------------------------------------ properties of cmd_chat
\* C17: an interrupt never ends run_conversation without a Result: after a
\* SIGINT, run_conversation is left only by returning the Result, unless
\* the transport or the audio device failed.
C17_InterruptAssemblesResult ==
    (/\ main.interrupts > 0
     /\ main.pc \in {"unwound", "returned", "exit0"}
     /\ main.exc \notin {"transport", "audio"})
        => result.set

\* ------------------------------------- properties of the session layer, 3
\* C21: a "done" is pushed only after the Result has been assembled, with
\* started_at and ended_at recorded, whichever way the session ended; and
\* its exit_code is 0 exactly when run_conversation returned the Result.
C21_DoneAfterResult ==
    \A i \in 1..Len(pushed) :
        pushed[i].type = "done" =>
            /\ result.set
            /\ result.started_at
            /\ result.ended_at
            /\ pushed[i].exit_code = 0 <=> wpc = "dead" /\ persist.returned

\* C22: a thread that has reached a push can always complete it, however
\* many events are undelivered and whether or not the consumer still reads.
C22_PushNeverBlocks ==
    /\ wpc = "w_starting" => ENABLED WorkerStarting
    /\ wpc = "rc_audio" => ENABLED EmitConnecting
    /\ wpc = "rc_started" => ENABLED EmitStarted
    /\ wpc = "rc_summary" => ENABLED EmitSummary
    /\ wpc = "rc_finished" => ENABLED EmitFinished
    /\ wpc = "w_saved" => ENABLED PushSaved
    /\ wpc = "w_captured" => ENABLED PushCaptured
    /\ wpc = "w_vocab" => ENABLED PushVocab
    /\ wpc = "w_done" => ENABLED PushDone
    /\ wpc = "w_error" => ENABLED PushError
    /\ wpc = "w_error_done" => ENABLED PushErrorDone
    /\ (stopper = "waiting" /\ stop_event) => ENABLED StopperWakes
    /\ \A i \in DOMAIN cb : cb[i].pc = "emit" => ENABLED CallbackEmit(i)

\* the consumer went away having read nothing, and the session's threads
\* pushed every event up to "done" all the same
C22_Witness ==
    /\ delivered = <<>>
    /\ cons = "closed"
    /\ wpc = "dead"
    /\ Len(queue) >= 9
    /\ queue = pushed
    /\ \E i \in 1..Len(queue) : IsTranscript(queue[i])
    /\ \E i \in 1..Len(queue) : queue[i] = Status("Stopping conversation...")

\* C23: a start request without an agent id is answered 400 and changes
\* nothing: no handle, no session, no worker; so a start request with an
\* agent id that finds no handle set is accepted.  The chat command without
\* an agent id exits with status 1 and run_conversation is never entered.
C23_MissingAgentFailsFast ==
    /\ [][(response'.req = "start" /\ response'.agent = "")
            => (response'.status = 400 /\ UNCHANGED <<webvars, sessvars>>)]_vars
    /\ [][(response'.req = "start" /\ response'.agent # "" /\ active_chat = 0)
            => response'.status # 409]_vars
    /\ [](main.pc = "exit1"
            => (conv = "none" /\ ~result.set /\ ~main.handler /\ main.exc = ""))
    /\ [][main.pc = "exit1" => main' = main]_vars

\* a start request without an agent id was answered 400 with no session
\* ever started
C23_Witness ==
    /\ response.req = "start"
    /\ response.status = 400
    /\ active_chat = 0
    /\ nsess = 0
    /\ wpc = "none"

\* where the worker is while inside run_conversation
InDriver ==
    wpc \in {"rc_audio", "rc_start", "rc_spawn", "rc_started", "rc_wait",
             "rc_setstop", "rc_join", "rc_summary", "rc_finished"}

\* C24: the "summary" event counts the user callbacks and the agent
\* (response and correction) callbacks received, comes after every
\* transcript event of the session and is directly followed by the status
\* "Conversation finished"; a returned Result has both behind it; and no
\* "done" is pushed while the worker is inside run_conversation.
C24_SummaryThenFinished ==
    /\ \A i \in 1..Len(pushed) :
          pushed[i].type = "summary" =>
            /\ pushed[i].user_lines = Len(ExpectedUser(arrivals))
            /\ pushed[i].agent_lines = Len(ExpectedAgent(arrivals))
            /\ Len(EmittedLines(SubSeq(pushed, 1, i))) = Len(arrivals)
            /\ \A j \in (i + 1)..Len(pushed) : ~IsTranscript(pushed[j])
            /\ i < Len(pushed) => pushed[i + 1] = Status("Conversation finished")
    /\ result.set =>
          \E i \in 1..(Len(pushed) - 1) :
              /\ pushed[i].type = "summary"
              /\ pushed[i + 1] = Status("Conversation finished")
    /\ InDriver => ~HasDone(pushed)

\* a session with a user utterance and an agent correction: the summary
\* counts one of each and the session is finished
C24_Witness ==
    /\ wpc = "dead"
    /\ Len(arrivals) = 2
    /\ arrivals[1].kind = "agent_correction"
    /\ arrivals[2].kind = "user_transcript"
    /\ \E i \in 1..Len(pushed) :
          /\ pushed[i] = SummaryEvent(<<"one">>, <<"one">>)
          /\ pushed[i + 1] = Status("Conversation finished")

Disconnected == cons \in {"finally", "joining", "closed"} /\ ~HasDone(delivered)

C27_HandleClearedOnlyByCleanup ==
    /\ [][active_chat' # active_chat
            => \/ /\ active_chat = 0
                  /\ active_chat' = nsess'
                  /\ nsess' = nsess + 1
                  /\ response'.req = "start"
                  /\ response'.status = 200
               \/ /\ active_chat' = 0
                  /\ active_chat = nsess
                  /\ cons = "joining"
                  /\ cons' = "closed"
                  /\ response' = NoResponse]_vars
    /\ [][((response'.req = "stop")
             \/ (response'.req # "start" /\ (wpc' # wpc \/ pushed' # pushed)))
            => active_chat' = active_chat]_vars
    /\ [](cons \in {"reading", "finally", "joining"}
            => active_chat = nsess /\ active_chat # 0)
    /\ [][(active_chat # 0 /\ response'.req = "start")
            => /\ response'.status = IF response'.agent = "" THEN 400 ELSE 409
               /\ UNCHANGED <<webvars, sessvars>>]_vars

\* the worker has ended and "done" lies unread in the queue; a stop request
\* was answered and the start request after it was refused
C27_Witness ==
    /\ wpc = "dead"
    /\ HasDone(queue)
    /\ cons = "reading"
    /\ stop_event
    /\ active_chat = nsess
    /\ active_chat # 0
    /\ response.req = "start"
    /\ response.status = 409

\* _persist_conversation took its except branch
PersistFailed == persist.returned /\ persist.session_id = 0

\* the "done" events pushed so far
DonePushed == {i \in 1..Len(pushed) : pushed[i].type = "done"}

\* C28: when persisting the Result fails, the worker goes on as after a
\* return: it pushes no "error", no "Saved session locally.", no "Captured"
\* status and no "vocab" event, and ends by pushing exactly one "done", with
\* exit_code 0, no session id and vocab_count 0.
C28_PersistFailureAbsorbed ==
    /\ PersistFailed =>
          /\ wpc \in {"w_saved", "w_captured", "w_vocab", "w_done", "dead"}
          /\ persist.vocab_items = 0
          /\ \A i \in 1..Len(pushed) :
                /\ pushed[i].type \notin {"error", "vocab"}
                /\ pushed[i].text \notin {"Saved session locally.",
                                          "Captured vocab items."}
          /\ wpc # "dead" => DonePushed = {}
    /\ (PersistFailed /\ wpc = "dead") =>
          /\ DonePushed = {Len(pushed)}
          /\ pushed[Len(pushed)] = DoneEvent(0, 0, 0)

\* a session with an utterance whose Result could not be persisted has
\* ended with "done" right after "Conversation finished"
C28_Witness ==
    /\ PersistFailed
    /\ wpc = "dead"
    /\ persist.given.user_text = "nihao"
    /\ Len(pushed) >= 2
    /\ pushed[Len(pushed)] = DoneEvent(0, 0, 0)
    /\ pushed[Len(pushed) - 1] = Status("Conversation finished")

\* ------------------------------------------------ properties of storage.py
\* the (english, chinese) pair of an item, a missing field read as ""
PairOf(item) == <<OrEmpty(item.english), OrEmpty(item.chinese)>>

\* the places of the items whose pair no earlier item has
FirstOccurrences(items) ==
    {k \in 1..Len(items) :
        \A j \in 1..(k - 1) : PairOf(items[j]) # PairOf(items[k])}

\* the i-th of a set of numbers, in increasing order
Nth(S, i) == CHOOSE k \in S : Cardinality({j \in S : j <= k}) = i

\* C29: a call of insert_vocab_items leaves the rows there were and adds,
\* in input order, one row for the first item of each distinct (english,
\* chinese) pair, with that item's fields and the call's source session id,
\* and returns the ids of the rows added, in the same order.
C29_OneRowPerDistinctPair ==
    [][call'.count # call.count =>
         LET items == call'.items
             ids == call'.ids
             firsts == FirstOccurrences(items)
             added == SubSeq(vocab', Len(vocab) + 1, Len(vocab'))
         IN  /\ SubSeq(vocab', 1, Len(vocab)) = vocab
             /\ Len(added) = Cardinality(firsts)
             /\ Len(ids) = Len(added)
             /\ \A i \in 1..Len(added) :
                   /\ added[i].english = OrEmpty(items[Nth(firsts, i)].english)
                   /\ added[i].chinese = OrEmpty(items[Nth(firsts, i)].chinese)
                   /\ added[i].pinyin = OrEmpty(items[Nth(firsts, i)].pinyin)
                   /\ added[i].example = OrEmpty(items[Nth(firsts, i)].example)
                   /\ added[i].source_session_id = call'.source_session_id
                   /\ added[i].seen_count = 0
                   /\ added[i].last_result = NullResult
                   /\ ids[i] = added[i].id
                   /\ \A j \in 1..Len(vocab') :
                         vocab'[j].id = ids[i] => j = Len(vocab) + i]_vars

\* a second call was given two items of one pair that differ in pinyin,
\* the pair being that of a row of the first call: it added one row, with
\* the pinyin of the first of the two and its own session id
C29_Witness ==
    /\ call.count = 2
    /\ Len(call.items) = 2
    /\ PairOf(call.items[1]) = PairOf(call.items[2])
    /\ call.items[1].pinyin = "mao1"
    /\ call.items[2].pinyin = Absent
    /\ call.items[1].english = Absent
    /\ Len(call.ids) = 1
    /\ Len(vocab) = 2
    /\ vocab[2].id = call.ids[1]
    /\ vocab[2].pinyin = "mao1"
    /\ vocab[2].english = ""
    /\ vocab[1].english = vocab[2].english
    /\ vocab[1].chinese = vocab[2].chinese
    /\ vocab[1].source_session_id # vocab[2].source_session_id

\* ------------------------------------------------- properties of review.py
\* the row with the given id
RowOf(table, id) == table[CHOOSE i \in 1..Len(table) : table[i].id = id]

\* C30: a turn of review_loop answered "q" changes no row and ends the loop;
\* a turn answered otherwise adds 1 to the seen_count of the row asked
\* about, sets its last_result to "pass" for p, pass and y and to "fail" for
\* anything else, and changes no other row; outside a turn no row is
\* updated.
C30_ReviewUpdatesAnsweredOnly ==
    /\ [][(review.pc = "asking" /\ review' # review) =>
            LET id == review.items[review.pos]
                answer == Lower(Strip(review'.answer))
            IN  IF answer = <<"q">>
                THEN /\ vocab' = vocab
                     /\ review'.pc = "idle"
                     /\ review'.pos = review.pos
                ELSE /\ Len(vocab') = Len(vocab)
                     /\ \E i \in 1..Len(vocab) : vocab[i].id = id
                     /\ \A i \in 1..Len(vocab) :
                           IF vocab[i].id = id
                           THEN vocab'[i] =
                                  [vocab[i] EXCEPT
                                     !.seen_count = @ + 1,
                                     !.last_seen_at = wallclock',
                                     !.last_result =
                                        IF answer \in {<<"p">>,
                                                       <<"p", "a", "s", "s">>,
                                                       <<"y">>}
                                        THEN "pass"
                                        ELSE "fail"]
                           ELSE vocab'[i] = vocab[i]]_vars
    /\ [][(review.pc = "idle" /\ call' = call) => vocab' = vocab]_vars

\* of three items never seen the first was answered with a pass and the
\* second with " Q ": the first row was seen once, the two others never
C30_Witness ==
    /\ review.pc = "idle"
    /\ review.runs = 1
    /\ Len(review.items) = 3
    /\ review.pos = 2
    /\ review.answer = <<" ", "Q", " ">>
    /\ RowOf(vocab, review.items[1]).seen_count = 1
    /\ RowOf(vocab, review.items[1]).last_result = "pass"
    /\ RowOf(vocab, review.items[2]).seen_count = 0
    /\ RowOf(vocab, review.items[2]).last_result = NullResult
    /\ RowOf(vocab, review.items[3]).seen_count = 0
====
